---------------------------- MODULE Spec2Model ----------------------------
(***************************************************************************)
(* A model of the Comparison chain of when-otherwise                       *)
(* (src/src/comparison.ts, with the factories of src/dist/comparison.d.ts).*)
(*                                                                         *)
(* JavaScript values are records tagged by their type in field t.  An      *)
(* object (a function, a promise) is identified by its structure: the      *)
(* value universe holds one function object per body and one promise       *)
(* object per settled value.                                               *)
(***************************************************************************)
EXTENDS Integers, Sequences, FiniteSets, TLC

VARIABLES
  tests,        \* Comparison.tests: the registered tests, in order
  value,        \* Comparison.value: the subject, Undefined when there is none
  fallback,     \* Comparison.fallback: Undefined when not set
  hasPromises,  \* Comparison.hasPromises
  ctor,         \* history: the factory call that built the chain
  againstCalls, \* history: the user has called against "never", "once", "again"
  ret,          \* what the most recent call on the chain returned or threw
  procs         \* the againstAsync() invocations started so far

vars == <<tests, value, fallback, hasPromises, ctor, againstCalls, ret, procs>>

(***************************************************************************)
(* Bounds of the model.                                                    *)
(***************************************************************************)
MaxTests == 2

MaxEqTests == 1

MaxAsync == 2

MaxLiveTests == 1

(***************************************************************************)
(* JavaScript values.                                                      *)
(***************************************************************************)
Undefined == [t |-> "undefined"]

Bool(b) == [t |-> "boolean", b |-> b]

Num(n) == [t |-> "number", n |-> n]

Str(s) == [t |-> "string", s |-> s]

\* A promise that settles (fulfils) with v; v is never itself a promise.
PromiseOf(v) == [t |-> "promise", of |-> v]

\* () => v, or async () => v when v is a promise
FnConst(v) == [t |-> "function", body |-> "const", ret |-> v]

\* (value) => value
FnId == [t |-> "function", body |-> "id"]

\* (_input) => v, the wrapper toCallable puts around a value v
FnWrap(v) == [t |-> "function", body |-> "wrap", ret |-> v]

\* typeof x === "function", x instanceof Function
IsFunction(x) == x.t = "function"

\* x instanceof Promise
IsPromise(x) == x.t = "promise"

\* ToBoolean: the truthiness an if statement tests
ToBoolean(x) ==
  CASE x.t = "undefined" -> FALSE
    [] x.t = "boolean" -> x.b
    [] x.t = "number" -> x.n # 0
    [] x.t = "string" -> x.s # ""
    [] OTHER -> TRUE

\* StringToNumber of the strings of the model; nan marks NaN
StringToNumber(s) ==
  CASE s = "" -> [nan |-> FALSE, n |-> 0]
    [] s = "0" -> [nan |-> FALSE, n |-> 0]
    [] s = "1" -> [nan |-> FALSE, n |-> 1]
    [] s = "2" -> [nan |-> FALSE, n |-> 2]
    [] OTHER -> [nan |-> TRUE, n |-> 0]

\* x === y
StrictEquals(x, y) == x = y

\* x == y (IsLooselyEqual): same type is strict; undefined equals only
\* undefined (and null); a number and a string compare as numbers; a boolean
\* is converted to a number first; an object converts to a string
\* ("[object Promise]", a function's source) that equals no primitive of the
\* model.
RECURSIVE LooseEquals(_, _)
LooseEquals(x, y) ==
  IF x.t = y.t THEN StrictEquals(x, y)
  ELSE IF x.t = "undefined" \/ y.t = "undefined" THEN FALSE
  ELSE IF x.t = "number" /\ y.t = "string"
    THEN LET m == StringToNumber(y.s) IN ~m.nan /\ m.n = x.n
  ELSE IF x.t = "string" /\ y.t = "number"
    THEN LET m == StringToNumber(x.s) IN ~m.nan /\ m.n = y.n
  ELSE IF x.t = "boolean" THEN LooseEquals(Num(IF x.b THEN 1 ELSE 0), y)
  ELSE IF y.t = "boolean" THEN LooseEquals(x, Num(IF y.b THEN 1 ELSE 0))
  ELSE FALSE


(***************************************************************************)
(* Callables.                                                              *)
(***************************************************************************)
\* toCallable wrapping a value in (input) => input
toCallableOfInput(v) == IF IsFunction(v) THEN v ELSE FnId

\* toCallable: a function is returned unchanged, anything else is wrapped
\* in (_input) => value
toCallable(v) == IF IsFunction(v) THEN v ELSE FnWrap(v)

\* compareValue of compare(): (isTrue && !negate) || (!isTrue && negate)
compareValue(v, comparisonValue, strict, negate) ==
  LET isTrue == IF strict THEN StrictEquals(comparisonValue, v)
                          ELSE LooseEquals(comparisonValue, v)
  IN (isTrue /\ ~negate) \/ (~isTrue /\ negate)

\* The closure `passes` that compare() builds over comparison, strict, negate
PassesClosure(comparison, strict, negate) ==
  [t |-> "function", body |-> "passes", comparison |-> comparison,
   strict |-> strict, negate |-> negate]

\* f(x) for the function objects of the model.  A passes closure calls the
\* comparison and compares at once, or in then() when the comparison value
\* is a promise.
RECURSIVE Call(_, _)
Call(f, x) ==
  CASE f.body \in {"const", "wrap"} -> f.ret
    [] f.body = "id" -> x
    [] f.body = "passes" ->
         LET comparisonValue == Call(toCallable(f.comparison), x)
         IN IF IsPromise(comparisonValue)
              THEN PromiseOf(Bool(compareValue(x, comparisonValue.of,
                                               f.strict, f.negate)))
              ELSE Bool(compareValue(x, comparisonValue, f.strict, f.negate))

\* One entry of tests; op and args are history: the method that registered
\* the test and the two arguments it was given
Test(op, args, passes, result) ==
  [op |-> op, args |-> args, passes |-> passes, result |-> result]

\* compare(): the test that it pushes
compare(op, comparison, result, strict, negate) ==
  Test(op, <<comparison, result>>, PassesClosure(comparison, strict, negate),
       toCallable(result))

\* is() comparing loosely
isTestLoose(comparison, result) ==
  compare("is", comparison, result, FALSE, FALSE)

isTest(comparison, result) == compare("is", comparison, result, TRUE, FALSE)

\* isLike() comparing strictly
isLikeTestStrict(comparison, result) ==
  compare("isLike", comparison, result, TRUE, FALSE)

isLikeTest(comparison, result) ==
  compare("isLike", comparison, result, FALSE, FALSE)

isNotTest(comparison, result) ==
  compare("isNot", comparison, result, FALSE, TRUE)

\* isNotLike() comparing strictly
isNotLikeTestStrict(comparison, result) ==
  compare("isNotLike", comparison, result, TRUE, TRUE)

isNotLikeTest(comparison, result) ==
  compare("isNotLike", comparison, result, FALSE, TRUE)

elseWhenTest(passes, result) ==
  Test("elseWhen", <<passes, result>>, toCallable(passes), toCallable(result))

(***************************************************************************)
(* Resolution, synchronous path.                                           *)
(***************************************************************************)
MissingSubject == Str("Cannot compare against an undefined value")

MissingFallback == Str("No tests matched and no default result was set")

\* An invocation of a callable during a resolution: the subject producer,
\* test i's passes, test i's result, the fallback (i = 0 where there is no
\* test)
Invoked(role, i) == [role |-> role, i |-> i]

\* verify() handing the fallback back as a value to return, not to call
verifyFallbackNotCalled(val, fb) ==
  IF val = Undefined
    THEN [ok |-> FALSE, err |-> MissingSubject]
  ELSE IF fb = Undefined
    THEN [ok |-> FALSE, err |-> MissingFallback]
  ELSE [ok |-> TRUE,
        value |-> IF IsFunction(val) THEN Call(val, Undefined) ELSE val,
        getFallback |-> FnWrap(fb),
        calls |-> IF IsFunction(val) THEN <<Invoked("subject", 0)>> ELSE <<>>]

\* verify() without the check of the fallback
verifyNoFallbackCheck(val, fb) ==
  IF val = Undefined
    THEN [ok |-> FALSE, err |-> MissingSubject]
  ELSE [ok |-> TRUE,
        value |-> IF IsFunction(val) THEN Call(val, Undefined) ELSE val,
        getFallback |-> toCallable(fb),
        calls |-> IF IsFunction(val) THEN <<Invoked("subject", 0)>> ELSE <<>>]

\* verify() without the check of the subject
verifyNoSubjectCheck(val, fb) ==
  IF fb = Undefined
    THEN [ok |-> FALSE, err |-> MissingFallback]
  ELSE [ok |-> TRUE,
        value |-> IF IsFunction(val) THEN Call(val, Undefined) ELSE val,
        getFallback |-> toCallable(fb),
        calls |-> IF IsFunction(val) THEN <<Invoked("subject", 0)>> ELSE <<>>]

\* verify(): the two usage checks, then the subject (called when it is a
\* function) and the fallback as a callable
verify(val, fb) ==
  IF val = Undefined
    THEN [ok |-> FALSE, err |-> MissingSubject]
  ELSE IF fb = Undefined
    THEN [ok |-> FALSE, err |-> MissingFallback]
  ELSE [ok |-> TRUE,
        value |-> IF IsFunction(val) THEN Call(val, Undefined) ELSE val,
        getFallback |-> toCallable(fb),
        calls |-> IF IsFunction(val) THEN <<Invoked("subject", 0)>> ELSE <<>>]

\* What a call returned or threw, with the callables it invoked
Returned(v, calls) == [kind |-> "return", v |-> v, calls |-> calls]

\* An error swallowed: the call returns undefined
ThrownSwallowed(err) == [kind |-> "return", v |-> Undefined, calls |-> <<>>]

Thrown(err) == [kind |-> "throw", v |-> err, calls |-> <<>>]

\* ScanSync with the last passing test winning instead of the first
ScanSyncLastMatch(ts, v, getFallback, i, calls) ==
  LET hits == {j \in i..Len(ts) : ToBoolean(Call(ts[j].passes, v))}
      called == calls \o [j \in 1..(Len(ts) - i + 1) |->
                            Invoked("passes", i + j - 1)]
  IN IF hits = {}
       THEN Returned(Call(getFallback, v),
                     Append(called, Invoked("fallback", 0)))
       ELSE LET j == CHOOSE h \in hits : \A g \in hits : g <= h
            IN Returned(Call(ts[j].result, v),
                        Append(called, Invoked("result", j)))

\* ScanSync taking a test as matching only when its predicate returns the
\* boolean true
RECURSIVE ScanSyncStrictTrue(_, _, _, _, _)
ScanSyncStrictTrue(ts, v, getFallback, i, calls) ==
  IF i > Len(ts)
    THEN Returned(Call(getFallback, v), Append(calls, Invoked("fallback", 0)))
  ELSE LET called == Append(calls, Invoked("passes", i))
       IN IF Call(ts[i].passes, v) = Bool(TRUE)
            THEN Returned(Call(ts[i].result, v),
                          Append(called, Invoked("result", i)))
            ELSE ScanSyncStrictTrue(ts, v, getFallback, i + 1, called)

\* The loop of againstSync from test i on, then the fallback
RECURSIVE ScanSync(_, _, _, _, _)
ScanSync(ts, v, getFallback, i, calls) ==
  IF i > Len(ts)
    THEN Returned(Call(getFallback, v), Append(calls, Invoked("fallback", 0)))
  ELSE LET called == Append(calls, Invoked("passes", i))
       IN IF ToBoolean(Call(ts[i].passes, v))
            THEN Returned(Call(ts[i].result, v),
                          Append(called, Invoked("result", i)))
            ELSE ScanSync(ts, v, getFallback, i + 1, called)

\* againstSync() on a chain with the fields ts, val, fb
againstSync(ts, val, fb) ==
  LET checked == verify(val, fb)
  IN IF checked.ok
       THEN ScanSync(ts, checked.value, checked.getFallback, 1, checked.calls)
       ELSE Thrown(checked.err)

(***************************************************************************)
(* Resolution, asynchronous path: one againstAsync() invocation is a       *)
(* record that advances from await to await.                               *)
(***************************************************************************)
\* valueFromPromise returning its argument without awaiting it
valueFromPromiseNotAwaited(x) == x

\* valueFromPromise, once its await has settled
valueFromPromise(x) == IF IsPromise(x) THEN x.of ELSE x

\* An invocation suspended at an await (pc names the await), or settled.
\* call, arg and subject are history: the call that started it, and
\* this.value at that call.  stale is history: the chain was changed after
\* the invocation started.
Proc(call, arg, subject, pc, getFallback, pending, calls) ==
  [call |-> call, arg |-> arg, subject |-> subject, pc |-> pc,
   value |-> Undefined, getFallback |-> getFallback, i |-> 0,
   pending |-> pending, calls |-> calls, stale |-> FALSE]

Settled(p) == p.pc \in {"fulfilled", "rejected"}

\* againstAsync() up to its first await: verify() runs at once, and its
\* throw rejects the returned promise
AsyncStart(call, arg, val, fb) ==
  LET checked == verify(val, fb)
  IN IF checked.ok
       THEN Proc(call, arg, val, "awaitValue", checked.getFallback,
                 checked.value, checked.calls)
       ELSE Proc(call, arg, val, "rejected", Undefined, checked.err, <<>>)

\* AsyncIterate calling the predicates of all the tests left at once, as
\* Promise.all over them would, and awaiting the first
AsyncIterateAllAtOnce(p, ts, v, i) ==
  IF i > Len(ts)
    THEN [p EXCEPT !.pc = "awaitFallback", !.value = v, !.i = i,
                   !.pending = Call(p.getFallback, v),
                   !.calls = Append(p.calls, Invoked("fallback", 0))]
    ELSE [p EXCEPT !.pc = "awaitPasses", !.value = v, !.i = i,
                   !.pending = Call(ts[i].passes, v),
                   !.calls = p.calls \o [j \in 1..(Len(ts) - i + 1) |->
                                          Invoked("passes", i + j - 1)]]

\* AsyncIterate with the subject taken from verify() as it is, not awaited
AsyncIterateSubjectNotAwaited(p, ts, v, i) ==
  LET w == IF p.pc = "awaitValue" THEN p.pending ELSE v
  IN IF i > Len(ts)
       THEN [p EXCEPT !.pc = "awaitFallback", !.value = w, !.i = i,
                      !.pending = Call(p.getFallback, w),
                      !.calls = Append(p.calls, Invoked("fallback", 0))]
       ELSE [p EXCEPT !.pc = "awaitPasses", !.value = w, !.i = i,
                      !.pending = Call(ts[i].passes, w),
                      !.calls = Append(p.calls, Invoked("passes", i))]

\* The for-of loop of againstAsync arriving at index i of the live tests:
\* it calls test i's passes and awaits it, or past the end calls the
\* fallback and awaits that
AsyncIterate(p, ts, v, i) ==
  IF i > Len(ts)
    THEN [p EXCEPT !.pc = "awaitFallback", !.value = v, !.i = i,
                   !.pending = Call(p.getFallback, v),
                   !.calls = Append(p.calls, Invoked("fallback", 0))]
    ELSE [p EXCEPT !.pc = "awaitPasses", !.value = v, !.i = i,
                   !.pending = Call(ts[i].passes, v),
                   !.calls = Append(p.calls, Invoked("passes", i))]

\* AsyncResume without the return in the loop: after a test's result the
\* loop goes on to the next test
AsyncResumeNoReturn(p, ts) ==
  LET awaited == valueFromPromise(p.pending)
  IN CASE p.pc = "awaitValue" -> AsyncIterate(p, ts, awaited, 1)
       [] p.pc = "awaitPasses" ->
            IF ToBoolean(awaited)
              THEN [p EXCEPT !.pc = "awaitResult",
                             !.pending = Call(ts[p.i].result, p.value),
                             !.calls = Append(p.calls, Invoked("result", p.i))]
              ELSE AsyncIterate(p, ts, p.value, p.i + 1)
       [] p.pc = "awaitResult" -> AsyncIterate(p, ts, p.value, p.i + 1)
       [] p.pc = "awaitFallback" ->
            [p EXCEPT !.pc = "fulfilled", !.pending = awaited]
       [] OTHER -> p

\* AsyncResume whose loop does not advance: a test that does not match is
\* evaluated again
AsyncResumeNoAdvance(p, ts) ==
  LET awaited == valueFromPromise(p.pending)
  IN CASE p.pc = "awaitValue" -> AsyncIterate(p, ts, awaited, 1)
       [] p.pc = "awaitPasses" ->
            IF ToBoolean(awaited)
              THEN [p EXCEPT !.pc = "awaitResult",
                             !.pending = Call(ts[p.i].result, p.value),
                             !.calls = Append(p.calls, Invoked("result", p.i))]
              ELSE AsyncIterate(p, ts, p.value, p.i)
       [] p.pc \in {"awaitResult", "awaitFallback"} ->
            [p EXCEPT !.pc = "fulfilled", !.pending = awaited]
       [] OTHER -> p

\* AsyncResume reading the subject from this.value after the first await
AsyncResumeLiveSubject(p, ts) ==
  LET awaited == valueFromPromise(p.pending)
  IN CASE p.pc = "awaitValue" ->
            AsyncIterate(p, ts, valueFromPromise(value), 1)
       [] p.pc = "awaitPasses" ->
            IF ToBoolean(awaited)
              THEN [p EXCEPT !.pc = "awaitResult",
                             !.pending = Call(ts[p.i].result, p.value),
                             !.calls = Append(p.calls, Invoked("result", p.i))]
              ELSE AsyncIterate(p, ts, p.value, p.i + 1)
       [] p.pc \in {"awaitResult", "awaitFallback"} ->
            [p EXCEPT !.pc = "fulfilled", !.pending = awaited]
       [] OTHER -> p

\* againstAsync() from the await it is suspended at to the next one, or to
\* its return
AsyncResume(p, ts) ==
  LET awaited == valueFromPromise(p.pending)
  IN CASE p.pc = "awaitValue" -> AsyncIterate(p, ts, awaited, 1)
       [] p.pc = "awaitPasses" ->
            IF ToBoolean(awaited)
              THEN [p EXCEPT !.pc = "awaitResult",
                             !.pending = Call(ts[p.i].result, p.value),
                             !.calls = Append(p.calls, Invoked("result", p.i))]
              ELSE AsyncIterate(p, ts, p.value, p.i + 1)
       [] p.pc \in {"awaitResult", "awaitFallback"} ->
            [p EXCEPT !.pc = "fulfilled", !.pending = awaited]
       [] OTHER -> p

(***************************************************************************)
(* The chain: construction.                                                *)
(***************************************************************************)
\* The constructor: value stays undefined unless one is given
Comparison(arg) ==
  [tests |-> <<>>, value |-> IF arg # Undefined THEN arg ELSE Undefined,
   fallback |-> Undefined, hasPromises |-> FALSE]

\* when() without the default of its parameter
whenNoDefault(arg) == Comparison(arg)

\* when(value = true): a missing argument is the boolean true
when(arg) == Comparison(IF arg = Undefined THEN Bool(TRUE) ELSE arg)

whenSomething == Comparison(Undefined)

\* What a call on the chain gave its caller: kind is "this" (the chain
\* itself), "return" or "throw" (a synchronous resolution), "promise" (the
\* pending promise of an asynchronous one), "fulfilled" or "rejected" (that
\* promise as the caller's await sees it settle).  subject is this.value at
\* the resolution; calls are the callables the resolution invoked.
Ret(call, arg, subject, outcome, stale) ==
  [call |-> call, arg |-> arg, subject |-> subject, kind |-> outcome.kind,
   v |-> outcome.v, calls |-> outcome.calls, stale |-> stale]

\* A fluent method returns the chain itself
This == [kind |-> "this", v |-> Undefined, calls |-> <<>>]

\* against() on the asynchronous path returns a promise
Pending == [kind |-> "promise", v |-> Undefined, calls |-> <<>>]

Fluent(call, arg) == Ret(call, arg, Undefined, This, FALSE)

Constructed(chain, op, arg) ==
  /\ tests = chain.tests
  /\ value = chain.value
  /\ fallback = chain.fallback
  /\ hasPromises = chain.hasPromises
  /\ ctor = [op |-> op, arg |-> arg]
  /\ againstCalls = "never"
  /\ ret = Fluent(op, arg)
  /\ procs = <<>>

(***************************************************************************)
(* The chain: its methods.                                                 *)
(***************************************************************************)
\* The invocations in flight when the chain is changed
MarkStale(ps) == [k \in DOMAIN ps |-> [ps[k] EXCEPT !.stale = TRUE]]

withPromises ==
  /\ hasPromises' = TRUE
  /\ ret' = Fluent("withPromises", Undefined)
  /\ UNCHANGED <<tests, value, fallback, ctor, againstCalls, procs>>

\* The test put first: tests.unshift(test); return this
PushFirst(test, arg) ==
  /\ tests' = <<test>> \o tests
  /\ ret' = Fluent(test.op, arg)
  /\ procs' = MarkStale(procs)
  /\ UNCHANGED <<value, fallback, hasPromises, ctor, againstCalls>>

\* tests.push(test); return this
Push(test, arg) ==
  /\ tests' = Append(tests, test)
  /\ ret' = Fluent(test.op, arg)
  /\ procs' = MarkStale(procs)
  /\ UNCHANGED <<value, fallback, hasPromises, ctor, againstCalls>>

is(comparison, result) == Push(isTest(comparison, result), comparison)

isLike(comparison, result) == Push(isLikeTest(comparison, result), comparison)

isNot(comparison, result) == Push(isNotTest(comparison, result), comparison)

isNotLike(comparison, result) ==
  Push(isNotLikeTest(comparison, result), comparison)

elseWhen(passes, result) == Push(elseWhenTest(passes, result), passes)

\* defaultTo() keeping a fallback that is already set
defaultToOnce(result) ==
  /\ fallback' = IF fallback = Undefined THEN result ELSE fallback
  /\ ret' = Fluent("defaultTo", result)
  /\ procs' = MarkStale(procs)
  /\ UNCHANGED <<tests, value, hasPromises, ctor, againstCalls>>

defaultTo(result) ==
  /\ fallback' = result
  /\ ret' = Fluent("defaultTo", result)
  /\ procs' = MarkStale(procs)
  /\ UNCHANGED <<tests, value, hasPromises, ctor, againstCalls>>

\* against() storing its input only while the chain has no subject
StoredValueOnce(current, input) ==
  IF current = Undefined THEN input ELSE current

\* The value against() stores in this.value
StoredValue(current, input) == input

\* against(input) once this.fallback is fb and the invocations in flight
\* are ps: store the subject, then resolve on the path hasPromises selects
Resolve(call, arg, input, fb, ps) ==
  /\ value' = StoredValue(value, input)
  /\ IF hasPromises
       THEN /\ Len(ps) < MaxAsync
            /\ procs' = Append(ps, AsyncStart(call, arg, value', fb))
            /\ ret' = Ret(call, arg, value', Pending, FALSE)
       ELSE /\ ret' = Ret(call, arg, value', againstSync(tests, value', fb),
                          FALSE)
            /\ procs' = ps
  /\ UNCHANGED <<tests, hasPromises, ctor>>

\* against() leaving the chain without its fallback
againstClearingFallback(input) ==
  /\ Resolve("against", input, input, fallback, procs)
  /\ againstCalls' = IF againstCalls = "never" THEN "once" ELSE "again"
  /\ fallback' = Undefined

against(input) ==
  /\ Resolve("against", input, input, fallback, procs)
  /\ againstCalls' = IF againstCalls = "never" THEN "once" ELSE "again"
  /\ fallback' = fallback

\* otherwise() resolving against the subject the chain was built with
otherwiseOfConstructed(fb) ==
  /\ fallback' = fb
  /\ Resolve("otherwise", fb,
             IF ctor.op = "when" THEN when(ctor.arg).value
                                 ELSE whenSomething.value,
             fb, MarkStale(procs))
  /\ againstCalls' = againstCalls

\* otherwise(fallback): this.fallback = fallback; against(this.value)
otherwise(fb) ==
  /\ fallback' = fb
  /\ Resolve("otherwise", fb, value, fb, MarkStale(procs))
  /\ againstCalls' = againstCalls

\* ps without its k-th entry
Without(ps, k) == SubSeq(ps, 1, k - 1) \o SubSeq(ps, k + 1, Len(ps))

\* Resume whose loop, once the chain was changed after the invocation
\* started, ends at the test it has reached
ResumeOverSeen(k) ==
  LET p == procs[k]
      ts == IF p.stale THEN SubSeq(tests, 1, p.i) ELSE tests
      q == IF Settled(p) THEN p ELSE AsyncResume(p, ts)
  IN /\ IF Settled(q)
          THEN /\ procs' = Without(procs, k)
               /\ ret' = Ret(q.call, q.arg, q.subject,
                             [kind |-> q.pc, v |-> q.pending,
                              calls |-> q.calls], q.stale)
          ELSE /\ procs' = [procs EXCEPT ![k] = q]
               /\ ret' = ret
     /\ UNCHANGED <<tests, value, fallback, hasPromises, ctor, againstCalls>>

\* Resume reading this.fallback when the loop ends, not the callable that
\* verify() returned
ResumeLiveFallback(k) ==
  LET p == [procs[k] EXCEPT !.getFallback = toCallable(fallback)]
      n == IF Settled(p) THEN p ELSE AsyncResume(p, tests)
      q == [n EXCEPT !.getFallback = procs[k].getFallback]
  IN /\ IF Settled(q)
          THEN /\ procs' = Without(procs, k)
               /\ ret' = Ret(q.call, q.arg, q.subject,
                             [kind |-> q.pc, v |-> q.pending,
                              calls |-> q.calls], q.stale)
          ELSE /\ procs' = [procs EXCEPT ![k] = q]
               /\ ret' = ret
     /\ UNCHANGED <<tests, value, fallback, hasPromises, ctor, againstCalls>>

\* The await of invocation k settles and againstAsync() runs to its next
\* await; when it returns or has thrown, the caller's await on the promise
\* receives the outcome
Resume(k) ==
  LET p == procs[k]
      q == IF Settled(p) THEN p ELSE AsyncResume(p, tests)
  IN /\ IF Settled(q)
          THEN /\ procs' = Without(procs, k)
               /\ ret' = Ret(q.call, q.arg, q.subject,
                             [kind |-> q.pc, v |-> q.pending,
                              calls |-> q.calls], q.stale)
          ELSE /\ procs' = [procs EXCEPT ![k] = q]
               /\ ret' = ret
     /\ UNCHANGED <<tests, value, fallback, hasPromises, ctor, againstCalls>>

(***************************************************************************)
(* The chain under the calls of a user who awaits each promise before the  *)
(* next call.                                                              *)
(***************************************************************************)
\* Subjects given to against(); Undefined is a missing argument
Inputs == {Undefined, Num(1), PromiseOf(Num(1))}

\* Subjects given to when(); Undefined is a missing argument
WhenInputs == {Undefined, Num(1)}

\* The comparison value and the result given to is, isLike, isNot,
\* isNotLike: literals, or callables that return promises
TestArgs ==
  {<<Str("1"), Str("r")>>,
   <<FnConst(PromiseOf(Num(1))), FnConst(PromiseOf(Str("q")))>>}

\* The condition and the result given to elseWhen
WhenArgs == {<<FnId, FnId>>}

\* Fallbacks given to defaultTo and otherwise
Fallbacks == {Undefined, Str("f"), FnId}

Init ==
  \/ \E arg \in WhenInputs : Constructed(when(arg), "when", arg)
  \/ Constructed(whenSomething, "whenSomething", Undefined)

\* The user may register while tests has room and no await is pending
CanRegister == Len(tests) < MaxTests /\ procs = <<>>

Next ==
  \/ procs = <<>> /\ withPromises
  \/ \E a \in TestArgs : CanRegister /\ is(a[1], a[2])
  \/ \E a \in TestArgs : CanRegister /\ isLike(a[1], a[2])
  \/ \E a \in TestArgs : CanRegister /\ isNot(a[1], a[2])
  \/ \E a \in TestArgs : CanRegister /\ isNotLike(a[1], a[2])
  \/ \E a \in WhenArgs : CanRegister /\ elseWhen(a[1], a[2])
  \/ \E r \in Fallbacks : procs = <<>> /\ defaultTo(r)
  \/ \E f \in Fallbacks : procs = <<>> /\ otherwise(f)
  \/ \E input \in Inputs : procs = <<>> /\ against(input)
  \/ \E k \in DOMAIN procs : Resume(k)

Spec == Init /\ [][Next]_vars

(***************************************************************************)
(* The comparison methods over the primitive values: a deferred chain of   *)
(* is, isLike, isNot and isNotLike tests, resolved against each value.     *)
(***************************************************************************)
EqValues ==
  {Undefined, Bool(TRUE), Bool(FALSE), Num(0), Num(1), Str("1"), Str("2"),
   Str("a")}

\* A comparison is a value, a callable returning one, or (value) => value
EqComparisons == EqValues \cup {FnConst(Num(1)), FnConst(Str("1")), FnId}

EqResult == Str("r")

EqFallback == Str("f")

InitEq == Constructed(whenSomething, "whenSomething", Undefined)

CanRegisterEq == Len(tests) < MaxEqTests /\ procs = <<>>

NextEq ==
  \/ procs = <<>> /\ withPromises
  \/ \E c \in EqComparisons : CanRegisterEq /\ is(c, EqResult)
  \/ \E c \in EqComparisons : CanRegisterEq /\ isLike(c, EqResult)
  \/ \E c \in EqComparisons : CanRegisterEq /\ isNot(c, EqResult)
  \/ \E c \in EqComparisons : CanRegisterEq /\ isNotLike(c, EqResult)
  \/ procs = <<>> /\ defaultTo(EqFallback)
  \/ \E input \in EqValues : procs = <<>> /\ against(input)
  \/ \E k \in DOMAIN procs : Resume(k)

SpecEq == InitEq /\ [][NextEq]_vars

(***************************************************************************)
(* What a resolution shows its caller.                                     *)
(***************************************************************************)
\* r is the outcome of a resolution, on either path
IsResolution(r) == r.kind \in {"return", "throw", "fulfilled", "rejected"}

\* r is a result: a returned value, or the value of a fulfilled promise
Completed(r) == r.kind \in {"return", "fulfilled"}

\* r came from againstAsync
OnAsync(r) == r.kind \in {"fulfilled", "rejected"}

\* x as the path sees it: awaited on the asynchronous path
Awaited(x, async) == IF async THEN valueFromPromise(x) ELSE x

\* The subject the tests of resolution r were given
ResolvedSubject(r) ==
  Awaited(IF IsFunction(r.subject) THEN Call(r.subject, Undefined)
                                   ELSE r.subject, OnAsync(r))

\* Test t on its own passes for subject s
Matches(t, s, async) == ToBoolean(Awaited(Call(t.passes, s), async))

\* The result of test t for subject s
ResultOf(t, s, async) == Awaited(Call(t.result, s), async)

\* Resolution r invoked the callable
WasInvoked(r, role, i) ==
  \E k \in DOMAIN r.calls : r.calls[k] = Invoked(role, i)

\* The resolution r ran on the chain as it is now
Current(r) == IsResolution(r) /\ ~r.stale

(***************************************************************************)
(* C1: first match wins.  When a resolution returns a result, it is the    *)
(* result of the lowest-indexed test that matches the subject: that test's *)
(* result callable is the only one invoked, and neither a later matching   *)
(* test's result nor the fallback is returned in its place.                *)
(***************************************************************************)
C1_FirstMatchWins ==
  (Current(ret) /\ Completed(ret)) =>
    LET s == ResolvedSubject(ret)
        a == OnAsync(ret)
    IN \A i \in 1..Len(tests) :
         (/\ Matches(tests[i], s, a)
          /\ \A h \in 1..(i - 1) : ~Matches(tests[h], s, a))
         => /\ ret.v = ResultOf(tests[i], s, a)
            /\ WasInvoked(ret, "result", i)
            /\ \A j \in 1..Len(tests) : j # i => ~WasInvoked(ret, "result", j)
            /\ ~WasInvoked(ret, "fallback", 0)

\* Two tests match the subject, with different results, and the resolution
\* returned the first one's
C1_Witness ==
  /\ Current(ret) /\ Completed(ret)
  /\ \E i, j \in 1..Len(tests) :
       LET s == ResolvedSubject(ret)
           a == OnAsync(ret)
       IN /\ i < j
          /\ Call(tests[i].passes, s) = Bool(TRUE)
          /\ Call(tests[j].passes, s) = Bool(TRUE)
          /\ ResultOf(tests[i], s, a) # ResultOf(tests[j], s, a)
          /\ ret.v = ResultOf(tests[i], s, a)

(***************************************************************************)
(* The comparison methods, test by test.                                   *)
(***************************************************************************)
\* The comparison value of test t for subject s: the value given, or what
\* the callable given returns for s, awaited on the asynchronous path
ResolvedComparison(t, s, async) ==
  LET c == t.passes.comparison
  IN Awaited(IF IsFunction(c) THEN Call(c, s) ELSE c, async)

\* Resolution r evaluated test i, registered by method op
Evaluated(r, i, op) ==
  /\ Current(r)
  /\ i \in 1..Len(tests)
  /\ tests[i].op = op
  /\ WasInvoked(r, "passes", i)

\* Resolution r took test i as matching: it invoked the test's result
Matched(r, i) == WasInvoked(r, "result", i)

\* The test is(c, R) applied to s
IsMatches(c, s, async) == Matches(isTest(c, Undefined), s, async)

\* The test isLike(c, R) applied to s
IsLikeMatches(c, s, async) == Matches(isLikeTest(c, Undefined), s, async)

(***************************************************************************)
(* C2: a test registered with is(C, R) matches the subject exactly when    *)
(* the resolved comparison value is strictly equal to the subject (same    *)
(* type and value, no coercion).                                           *)
(***************************************************************************)
C2_IsStrictEquality ==
  \A i \in 1..Len(tests) :
    Evaluated(ret, i, "is") =>
      LET s == ResolvedSubject(ret)
      IN Matched(ret, i)
           <=> StrictEquals(ResolvedComparison(tests[i], s, OnAsync(ret)), s)

\* is("1", R) was evaluated against the subject 1 and did not match: the
\* resolution returned the fallback
C2_Witness ==
  /\ Len(tests) >= 1
  /\ Evaluated(ret, 1, "is")
  /\ tests[1].passes.comparison = Str("1")
  /\ ResolvedSubject(ret) = Num(1)
  /\ ~Matched(ret, 1)
  /\ ret.v = EqFallback

(***************************************************************************)
(* C3: a test registered with isLike(C, R) matches the subject exactly     *)
(* when the resolved comparison value is loosely equal to the subject      *)
(* (equality with type coercion).                                          *)
(***************************************************************************)
C3_IsLikeLooseEquality ==
  \A i \in 1..Len(tests) :
    Evaluated(ret, i, "isLike") =>
      LET s == ResolvedSubject(ret)
      IN Matched(ret, i)
           <=> LooseEquals(ResolvedComparison(tests[i], s, OnAsync(ret)), s)

\* isLike(false, R) was evaluated against the subject 0 and matched: the
\* resolution returned R
C3_Witness ==
  /\ Len(tests) >= 1
  /\ Evaluated(ret, 1, "isLike")
  /\ tests[1].passes.comparison = Bool(FALSE)
  /\ ResolvedSubject(ret) = Num(0)
  /\ Matched(ret, 1)
  /\ ret.v = EqResult

(***************************************************************************)
(* C4: isNot is strict inequality and the exact negation of is: a test     *)
(* registered with isNot(C, R) matches the subject if and only if C !== S  *)
(* without coercion, that is if and only if is(C, R) would not match.      *)
(***************************************************************************)
C4_IsNotStrictInequality ==
  \A i \in 1..Len(tests) :
    Evaluated(ret, i, "isNot") =>
      LET s == ResolvedSubject(ret)
          a == OnAsync(ret)
      IN /\ Matched(ret, i)
              <=> ~StrictEquals(ResolvedComparison(tests[i], s, a), s)
         /\ Matched(ret, i) <=> ~IsMatches(tests[i].passes.comparison, s, a)

(***************************************************************************)
(* C5: isNotLike is loose inequality and the exact negation of isLike: a   *)
(* test registered with isNotLike(C, R) matches the subject if and only if *)
(* C != S under coercion, that is if and only if isLike(C, R) would not    *)
(* match.                                                                  *)
(***************************************************************************)
C5_IsNotLikeLooseInequality ==
  \A i \in 1..Len(tests) :
    Evaluated(ret, i, "isNotLike") =>
      LET s == ResolvedSubject(ret)
          a == OnAsync(ret)
      IN /\ Matched(ret, i)
              <=> ~LooseEquals(ResolvedComparison(tests[i], s, a), s)
         /\ Matched(ret, i)
              <=> ~IsLikeMatches(tests[i].passes.comparison, s, a)

\* isNotLike(false, R) was evaluated against the subject 0 and did not
\* match: the resolution returned the fallback
C5_Witness ==
  /\ Len(tests) >= 1
  /\ Evaluated(ret, 1, "isNotLike")
  /\ tests[1].passes.comparison = Bool(FALSE)
  /\ ResolvedSubject(ret) = Num(0)
  /\ ~Matched(ret, 1)
  /\ ret.v = EqFallback

(***************************************************************************)
(* C6: the fallback path.  When no registered test matches the subject (a  *)
(* chain without tests included) and a fallback is set, the resolution is  *)
(* not an error: it returns the resolved fallback (the fallback value, or  *)
(* the fallback callable applied to the resolved subject) and invokes no   *)
(* test's result callable.                                                 *)
(***************************************************************************)
\* The fallback fb resolved for subject s
ResolvedFallback(fb, s, async) ==
  Awaited(IF IsFunction(fb) THEN Call(fb, s) ELSE fb, async)

\* No test of the chain matches the subject of resolution r
NoTestMatches(r) ==
  \A i \in 1..Len(tests) : ~Matches(tests[i], ResolvedSubject(r), OnAsync(r))

C6_FallbackPath ==
  (/\ Current(ret)
   /\ ret.subject # Undefined
   /\ fallback # Undefined
   /\ NoTestMatches(ret))
  => /\ Completed(ret)
     /\ ret.v = ResolvedFallback(fallback, ResolvedSubject(ret), OnAsync(ret))
     /\ WasInvoked(ret, "fallback", 0)
     /\ \A i \in 1..Len(tests) : ~WasInvoked(ret, "result", i)

\* A chain with tests, none matching, whose fallback callable was applied
\* to the subject
C6_Witness ==
  /\ Current(ret)
  /\ Len(tests) = MaxTests
  /\ NoTestMatches(ret)
  /\ fallback = FnId
  /\ Completed(ret)
  /\ ret.v = ResolvedSubject(ret)
  /\ ret.v = Num(1)

(***************************************************************************)
(* C7: short-circuit, on both paths.  Once a test's predicate has matched, *)
(* the only callable invoked after it in that resolution is the test's own *)
(* result: no later predicate, no other result, not the fallback.  A       *)
(* resolution that gives a result has invoked exactly one result or        *)
(* fallback callable.                                                      *)
(***************************************************************************)
\* In the log of one resolution, nothing follows a matching predicate but
\* its test's result
ShortCircuits(log, s, async) ==
  \A k \in 1..Len(log) :
    (log[k].role = "passes" /\ Matches(tests[log[k].i], s, async))
    => \A m \in (k + 1)..Len(log) :
         m = k + 1 /\ log[m] = Invoked("result", log[k].i)

\* The result and fallback invocations of a log
Producers(log) ==
  {k \in 1..Len(log) : log[k].role \in {"result", "fallback"}}

C7_ShortCircuit ==
  /\ Current(ret) =>
       /\ ShortCircuits(ret.calls, ResolvedSubject(ret), OnAsync(ret))
       /\ Completed(ret) => Cardinality(Producers(ret.calls)) = 1
  /\ \A k \in DOMAIN procs :
       /\ ShortCircuits(procs[k].calls, procs[k].value, TRUE)
       /\ Cardinality(Producers(procs[k].calls)) <= 1

\* An asynchronous resolution over two tests that both match the subject:
\* it invoked the first predicate and the first result, and nothing else
C7_Witness ==
  /\ Current(ret)
  /\ ret.kind = "fulfilled"
  /\ Len(tests) = 2
  /\ \A i \in 1..2 : Matches(tests[i], ResolvedSubject(ret), TRUE)
  /\ ret.calls = <<Invoked("passes", 1), Invoked("result", 1)>>

(***************************************************************************)
(* Whole resolutions as functions of the chain.                            *)
(***************************************************************************)
\* againstAsync() run from invocation p to its end over the tests ts
RECURSIVE RunAsync(_, _)
RunAsync(p, ts) ==
  IF Settled(p) THEN p ELSE RunAsync(AsyncResume(p, ts), ts)

\* What against() gives on a chain with fields ts, val, fb on either path:
\* the value returned or thrown, or the settlement of the promise
Outcome(ts, val, fb, async) ==
  IF async
    THEN LET q == RunAsync(AsyncStart("against", val, val, fb), ts)
         IN [kind |-> q.pc, v |-> q.pending]
    ELSE LET r == againstSync(ts, val, fb)
         IN [kind |-> r.kind, v |-> r.v]

\* The outcome resolution r gave its caller
Got(r) == [kind |-> r.kind, v |-> r.v]

(***************************************************************************)
(* C8: callable-or-value uniformity.  Replacing a literal result, fallback *)
(* or comparison value v by a callable that returns v yields the same      *)
(* resolution outcome.                                                     *)
(***************************************************************************)
\* x, or the callable () => x when x is a value
AsCallable(x) == IF IsFunction(x) THEN x ELSE FnConst(x)

\* The test that method op registers for the arguments a and r
Registered(op, a, r) ==
  CASE op = "is" -> isTest(a, r)
    [] op = "isLike" -> isLikeTest(a, r)
    [] op = "isNot" -> isNotTest(a, r)
    [] op = "isNotLike" -> isNotLikeTest(a, r)
    [] op = "elseWhen" -> elseWhenTest(a, r)

\* The tests of the chain had every value argument been given as a callable
TestsWithCallables ==
  [i \in DOMAIN tests |->
     Registered(tests[i].op, AsCallable(tests[i].args[1]),
                AsCallable(tests[i].args[2]))]

\* The claim as stated, for every fallback given to otherwise, the literal
\* undefined included
C8_CallableOrValue ==
  Current(ret) =>
    Got(ret) = Outcome(TestsWithCallables, ret.subject,
                       IF fallback = Undefined /\ ret.call # "otherwise"
                         THEN Undefined ELSE AsCallable(fallback),
                       OnAsync(ret))

\* C8 as amended: the same for every result, every comparison value and
\* every fallback other than undefined; a literal undefined fallback is no
\* fallback
C8_CallableOrValueDefined ==
  Current(ret) =>
    Got(ret) = Outcome(TestsWithCallables, ret.subject,
                       IF fallback = Undefined THEN Undefined
                                               ELSE AsCallable(fallback),
                       OnAsync(ret))

\* A chain whose first test was given a literal comparison and a literal
\* result, with a literal fallback: the literal result was returned
C8_Witness ==
  /\ Current(ret) /\ Completed(ret)
  /\ Len(tests) >= 1
  /\ ~IsFunction(tests[1].args[1]) /\ ~IsFunction(tests[1].args[2])
  /\ fallback # Undefined /\ ~IsFunction(fallback)
  /\ Matched(ret, 1)
  /\ ret.v = tests[1].args[2]

(***************************************************************************)
(* C9: deferred reuse.  On a chain built with whenSomething(), every       *)
(* against(s) gives the outcome that a freshly built chain with the same   *)
(* tests and fallback gives for s, whatever was resolved before.           *)
(***************************************************************************)
C9_DeferredReuse ==
  (Current(ret) /\ ret.call = "against" /\ ctor.op = "whenSomething") =>
    Got(ret) = Outcome(tests, StoredValue(whenSomething.value, ret.arg),
                       fallback, OnAsync(ret))

\* A later against on a deferred chain that had a subject from an earlier
\* one, giving a result
C9_Witness ==
  /\ ctor.op = "whenSomething"
  /\ againstCalls = "again"
  /\ Current(ret) /\ ret.call = "against" /\ Completed(ret)
  /\ Len(tests) >= 1

(***************************************************************************)
(* C10: default subject.  A chain created by when() with no argument       *)
(* resolves, for every registered tests and fallback, as the chain created *)
(* by when(true) does.                                                     *)
(***************************************************************************)
C10_DefaultSubject ==
  (ctor = [op |-> "when", arg |-> Undefined] /\ againstCalls = "never") =>
    /\ value = when(Bool(TRUE)).value
    /\ Current(ret) =>
         Got(ret) = Outcome(tests, when(Bool(TRUE)).value, fallback,
                            OnAsync(ret))

\* otherwise() on a chain built by when() gave the result of a test that
\* matches the subject true
C10_Witness ==
  /\ ctor = [op |-> "when", arg |-> Undefined]
  /\ againstCalls = "never"
  /\ Current(ret) /\ ret.call = "otherwise" /\ Completed(ret)
  /\ ResolvedSubject(ret) = Bool(TRUE)
  /\ Len(tests) >= 1
  /\ Matched(ret, 1)

(***************************************************************************)
(* The chain with its promises resolved.                                   *)
(***************************************************************************)
\* x with the promise it is, or the promise its callable returns, replaced
\* by the value the promise settles to
Unwrapped(x) ==
  IF IsPromise(x) THEN x.of
  ELSE IF IsFunction(x) /\ x.body = "const" /\ IsPromise(x.ret)
    THEN FnConst(x.ret.of)
  ELSE x

\* The tests of the chain registered with the resolved values
TestsUnwrapped ==
  [i \in DOMAIN tests |->
     Registered(tests[i].op, Unwrapped(tests[i].args[1]),
                Unwrapped(tests[i].args[2]))]

\* The test whose result a resolution invoked, 0 when it invoked none
Selected(log) ==
  IF \E k \in DOMAIN log : log[k].role = "result"
    THEN log[CHOOSE k \in DOMAIN log : log[k].role = "result"].i
    ELSE 0

(***************************************************************************)
(* C11: async parity.  The promise that a resolution with withPromises()   *)
(* returns settles as the synchronous path returns for the same chain      *)
(* built from the resolved values: the same result (or the same error),    *)
(* from the same test.                                                     *)
(***************************************************************************)
C11_AsyncParity ==
  (Current(ret) /\ OnAsync(ret)) =>
    LET r == againstSync(TestsUnwrapped, Unwrapped(ret.subject),
                         Unwrapped(fallback))
    IN /\ (ret.kind = "fulfilled") <=> (r.kind = "return")
       /\ ret.v = r.v
       /\ Selected(ret.calls) = Selected(r.calls)

\* An asynchronous resolution that passed a first test and matched a second
\* one whose comparison and result are both promises, and gave the value of
\* the result's promise
C11_Witness ==
  /\ ret.kind = "fulfilled" /\ ~ret.stale
  /\ Len(tests) = 2
  /\ Unwrapped(tests[2].args[1]) # tests[2].args[1]
  /\ Unwrapped(tests[2].args[2]) # tests[2].args[2]
  /\ ret.calls = <<Invoked("passes", 1), Invoked("passes", 2),
                   Invoked("result", 2)>>
  /\ ret.v = Unwrapped(tests[2].args[2]).ret

(***************************************************************************)
(* C12: with withPromises(), equality is decided on resolved values, never *)
(* on promise objects.  A subject given as a promise is awaited before the *)
(* first test; the promise a comparison callable returns is awaited before *)
(* comparing; is(async () => "a", true) resolved against a promise of "a"  *)
(* gives a promise that resolves to true.                                  *)
(***************************************************************************)
\* Test i was registered by is, isLike, isNot or isNotLike
Compares(i) == tests[i].op \in {"is", "isLike", "isNot", "isNotLike"}

C12_AsyncResolvedValues ==
  /\ (Current(ret) /\ OnAsync(ret)) =>
       \A i \in 1..Len(tests) :
         (Compares(i) /\ WasInvoked(ret, "passes", i)) =>
           LET s == Unwrapped(ret.subject)
               c0 == Unwrapped(tests[i].args[1])
               c == IF IsFunction(c0) THEN Call(c0, s) ELSE c0
           IN /\ ~IsPromise(s)
              /\ ~IsPromise(c)
              /\ Matched(ret, i)
                   <=> compareValue(s, c, tests[i].passes.strict,
                                    tests[i].passes.negate)
  /\ \A k \in DOMAIN procs :
       procs[k].pc \in {"awaitPasses", "awaitResult", "awaitFallback"}
         => ~IsPromise(procs[k].value)
  /\ Outcome(<<isTest(FnConst(PromiseOf(Str("a"))), Bool(TRUE))>>,
             PromiseOf(Str("a")), Bool(FALSE), TRUE)
       = [kind |-> "fulfilled", v |-> Bool(TRUE)]

\* is(async () => 1, R) resolved against a promise of 1 matched
C12_Witness ==
  /\ ret.kind = "fulfilled" /\ ~ret.stale
  /\ IsPromise(ret.subject)
  /\ Len(tests) >= 1
  /\ tests[1].op = "is"
  /\ IsFunction(tests[1].args[1])
  /\ IsPromise(Call(tests[1].args[1], Undefined))
  /\ Call(tests[1].args[1], Undefined) = ret.subject
  /\ Matched(ret, 1)

(***************************************************************************)
(* C13: otherwise(f) on a chain without a subject fails with "Cannot       *)
(* compare against an undefined value" (thrown, or as the rejection of the *)
(* promise with withPromises()).  The check is eager: no comparison,       *)
(* predicate, result or fallback callable is invoked, even when a          *)
(* registered test matches every subject.                                  *)
(***************************************************************************)
\* r is the failure of a resolution with the error err
FailedWith(r, err) == r.kind \in {"throw", "rejected"} /\ r.v = err

C13_OtherwiseWithoutSubject ==
  /\ (Current(ret) /\ ret.call = "otherwise" /\ ret.subject = Undefined) =>
       /\ FailedWith(ret, MissingSubject)
       /\ ret.calls = <<>>
  /\ \A k \in DOMAIN procs :
       (procs[k].call = "otherwise" /\ procs[k].subject = Undefined) =>
         /\ procs[k].pc = "rejected"
         /\ procs[k].pending = MissingSubject
         /\ procs[k].calls = <<>>

\* otherwise(f) with a fallback f, on a deferred chain never resolved
\* against a value whose first test matches the subject undefined, failed
C13_Witness ==
  /\ ctor.op = "whenSomething"
  /\ againstCalls = "never"
  /\ Current(ret) /\ ret.call = "otherwise" /\ ret.arg # Undefined
  /\ Len(tests) >= 1
  /\ ToBoolean(Call(tests[1].passes, Undefined))
  /\ FailedWith(ret, MissingSubject)

(***************************************************************************)
(* C14: resolution requires the fallback to be set.  against(s) with a     *)
(* defined subject s on a chain without a fallback fails with "No tests    *)
(* matched and no default result was set" before any test is scanned, on   *)
(* the synchronous and on the asynchronous path.                           *)
(***************************************************************************)
C14_FallbackRequired ==
  /\ (Current(ret) /\ ret.subject # Undefined /\ fallback = Undefined) =>
       /\ FailedWith(ret, MissingFallback)
       /\ ret.kind = (IF hasPromises THEN "rejected" ELSE "throw")
       /\ ret.calls = <<>>
  /\ \A k \in DOMAIN procs :
       (/\ ~procs[k].stale
        /\ procs[k].subject # Undefined
        /\ fallback = Undefined)
       => /\ procs[k].pc = "rejected"
          /\ procs[k].pending = MissingFallback
          /\ procs[k].calls = <<>>

\* against(s) on a chain on which no fallback was set and whose first test
\* matches s: the promise was rejected and no predicate was called
C14_Witness ==
  /\ Current(ret) /\ ret.call = "against"
  /\ ret.subject # Undefined
  /\ fallback = Undefined
  /\ Len(tests) >= 1
  /\ Matches(tests[1], ResolvedSubject(ret), TRUE)
  /\ ret.kind = "rejected" /\ ret.v = MissingFallback
  /\ ret.calls = <<>>

(***************************************************************************)
(* C15: the missing-fallback error is raised only when no test matched.    *)
(* Whenever a resolution fails with "No tests matched and no default       *)
(* result was set", no registered test matches the subject; a chain        *)
(* without a fallback whose subject matches a registered test resolves to  *)
(* that test's result.                                                     *)
(***************************************************************************)
C15_MissingFallbackOnlyUnmatched ==
  (Current(ret) /\ ret.subject # Undefined) =>
    /\ FailedWith(ret, MissingFallback) => NoTestMatches(ret)
    /\ (fallback = Undefined /\ ~NoTestMatches(ret)) =>
         /\ Completed(ret)
         /\ \E i \in 1..Len(tests) :
              /\ Matched(ret, i)
              /\ ret.v = ResultOf(tests[i], ResolvedSubject(ret), OnAsync(ret))

(***************************************************************************)
(* C16: error delivery follows the path.  Without withPromises() a missing *)
(* subject or a missing fallback is thrown by against / otherwise; with    *)
(* withPromises() the call does not throw and returns a promise that       *)
(* rejects with that error.  On neither path does a usage error give a     *)
(* result.                                                                 *)
(***************************************************************************)
\* The usage error of a resolution with subject s and fallback fb
UsageError(s, fb) == IF s = Undefined THEN MissingSubject ELSE MissingFallback

C16_ErrorDelivery ==
  /\ ret.call \in {"against", "otherwise"} =>
       ret.kind \in (IF hasPromises THEN {"promise", "fulfilled", "rejected"}
                                    ELSE {"return", "throw"})
  /\ (Current(ret) /\ (ret.subject = Undefined \/ fallback = Undefined)) =>
       /\ ret.kind = (IF hasPromises THEN "rejected" ELSE "throw")
       /\ ret.v = UsageError(ret.subject, fallback)
  /\ \A k \in DOMAIN procs :
       (~procs[k].stale /\ (procs[k].subject = Undefined
                              \/ fallback = Undefined))
       => /\ procs[k].pc = "rejected"
          /\ procs[k].pending = UsageError(procs[k].subject, fallback)

\* against() without a subject on a chain with withPromises() and a
\* fallback: the promise it returned was rejected with the missing-subject
\* error
C16_Witness ==
  /\ hasPromises
  /\ fallback # Undefined
  /\ Current(ret) /\ ret.call = "against"
  /\ ret.kind = "rejected"
  /\ ret.v = MissingSubject

(***************************************************************************)
(* C17: a test registered with elseWhen(condition, R) matches only when    *)
(* its resolved condition (the boolean itself, or the value the condition  *)
(* callable returns for the subject) is exactly the boolean true; a        *)
(* resolved condition that is not a boolean, such as 1 or a non-empty      *)
(* string, does not match.                                                 *)
(***************************************************************************)
\* The condition of the elseWhen test t resolved for subject s
ResolvedCondition(t, s, async) ==
  LET c == t.args[1]
  IN Awaited(IF IsFunction(c) THEN Call(c, s) ELSE c, async)

C17_ElseWhenExactlyTrue ==
  \A i \in 1..Len(tests) :
    Evaluated(ret, i, "elseWhen") =>
      (Matched(ret, i)
         <=> ResolvedCondition(tests[i], ResolvedSubject(ret), OnAsync(ret))
               = Bool(TRUE))

(***************************************************************************)
(* Steps of a resolution, told from the states before and after.           *)
(***************************************************************************)
\* The step is a call of against: it returned or threw, or it started an
\* invocation of againstAsync
AgainstCalled ==
  /\ ret'.call = "against"
  /\ \/ ret'.kind \in {"return", "throw"}
     \/ ret'.kind = "promise" /\ Len(procs') = Len(procs) + 1

\* The step is an invocation of againstAsync going on after an await, or
\* settling
AgainstContinued ==
  \/ Len(procs') < Len(procs)
  \/ /\ ret' = ret
     /\ procs' # procs
     /\ Len(procs') = Len(procs)
     /\ \A k \in DOMAIN procs : procs'[k].stale = procs[k].stale

CoInputs == {Num(1), Num(2), PromiseOf(Num(2))}

CoTestArgs ==
  {<<Num(1), Str("r")>>,
   <<FnConst(PromiseOf(Num(2))), FnConst(PromiseOf(Str("q")))>>}

CoFallbacks == {Str("f"), FnId}

InitCo == Constructed(whenSomething, "whenSomething", Undefined)

NextCo ==
  \/ procs = <<>> /\ withPromises
  \/ \E a \in CoTestArgs : CanRegister /\ is(a[1], a[2])
  \/ \E r \in CoFallbacks : procs = <<>> /\ defaultTo(r)
  \/ \E input \in CoInputs : against(input)
  \/ \E k \in DOMAIN procs : Resume(k)

SpecCo == InitCo /\ [][NextCo]_vars

(***************************************************************************)
(* C19: concurrent asynchronous resolutions are independent.  When         *)
(* against(a) and against(b) are both started on a chain with              *)
(* withPromises() before either promise settles, then under every          *)
(* interleaving of the settlements each promise resolves to the result for *)
(* its own subject.                                                        *)
(***************************************************************************)
\* The result for the subject s: what the tests and the fallback of the
\* chain, with their promises resolved, give for s
ResultFor(s) ==
  againstSync(TestsUnwrapped, Unwrapped(s), Unwrapped(fallback))

C19_ConcurrentIndependent ==
  /\ (Current(ret) /\ OnAsync(ret) /\ ret.call = "against") =>
       /\ (ret.kind = "fulfilled") <=> (ResultFor(ret.arg).kind = "return")
       /\ ret.v = ResultFor(ret.arg).v
  /\ \A k \in DOMAIN procs :
       (~procs[k].stale /\ procs[k].call = "against") =>
         /\ procs[k].subject = procs[k].arg
         /\ procs[k].pc \in {"awaitPasses", "awaitResult", "awaitFallback"}
              => procs[k].value = Unwrapped(procs[k].arg)

\* The promise of against(a) resolved to the result for a while the promise
\* of a later against(b), whose result differs, was still pending and b
\* was the stored subject of the chain
C19_Witness ==
  /\ Current(ret) /\ ret.call = "against" /\ ret.kind = "fulfilled"
  /\ Len(procs) = 1
  /\ procs[1].arg # ret.arg
  /\ value = procs[1].arg
  /\ procs[1].pc # "awaitValue"
  /\ ret.v = ResultFor(ret.arg).v
  /\ ret.v # ResultFor(procs[1].arg).v

(***************************************************************************)
(* C20: registration is append-only.  Each call of is, isLike, isNot,      *)
(* isNotLike or elseWhen returns the chain itself, makes the test sequence *)
(* longer by exactly one with the new test last, and leaves every earlier  *)
(* test, the fallback, the subject and the async flag as they were;        *)
(* defaultTo and withPromises return the chain itself and leave the test   *)
(* sequence as it was.                                                     *)
(***************************************************************************)
RegistrationOps == {"is", "isLike", "isNot", "isNotLike", "elseWhen"}

C20_AppendOnly ==
  [][/\ (ret'.call \in RegistrationOps /\ (ret' # ret \/ tests' # tests)) =>
          /\ ret'.kind = "this"
          /\ Len(tests') = Len(tests) + 1
          /\ SubSeq(tests', 1, Len(tests)) = tests
          /\ tests'[Len(tests')].op = ret'.call
          /\ tests'[Len(tests')].args[1] = ret'.arg
          /\ UNCHANGED <<fallback, value, hasPromises>>
     /\ (ret'.call \in {"defaultTo", "withPromises"} /\ ret' # ret) =>
          /\ ret'.kind = "this"
          /\ tests' = tests
     /\ tests' # tests => ret'.call \in RegistrationOps]_vars

\* A second, different test was registered last on a chain that has a
\* subject, a fallback and withPromises()
C20_Witness ==
  /\ ret.kind = "this" /\ ret.call \in RegistrationOps
  /\ Len(tests) = 2
  /\ tests[2].op = ret.call
  /\ tests[2].args[1] = ret.arg
  /\ tests[1] # tests[2]
  /\ value # Undefined /\ fallback # Undefined /\ hasPromises

(***************************************************************************)
(* C21: sequential asynchronous evaluation.  Within one againstAsync() the *)
(* subject is resolved before the first predicate is invoked; the          *)
(* predicate of test k+1 is invoked only after that of test k has settled  *)
(* as not matching; a result callable only after its own predicate has     *)
(* settled as matching; the fallback only after every predicate has        *)
(* settled as not matching; two predicates are never pending together.     *)
(***************************************************************************)
\* The predicate invocations of a log before its k-th entry
PassesBefore(log, k) == {j \in 1..(k - 1) : log[j].role = "passes"}

\* The predicate invocations of a log
PassesIn(log) == PassesBefore(log, Len(log) + 1)

\* Every invocation of the log came in its turn, for the subject s
Sequenced(log, s) ==
  \A k \in 1..Len(log) :
    LET before == PassesBefore(log, k)
        unmatched == \A j \in before : ~Matches(tests[log[j].i], s, TRUE)
    IN CASE log[k].role = "subject" -> k = 1
         [] log[k].role = "passes" ->
              /\ log[k].i = Cardinality(before) + 1
              /\ unmatched
         [] log[k].role = "result" ->
              /\ k > 1
              /\ log[k - 1] = Invoked("passes", log[k].i)
              /\ Matches(tests[log[k].i], s, TRUE)
              /\ \A j \in before \ {k - 1} :
                   ~Matches(tests[log[j].i], s, TRUE)
         [] log[k].role = "fallback" -> unmatched

C21_SequentialAsync ==
  /\ \A k \in DOMAIN procs :
       LET p == procs[k]
           last == p.calls[Len(p.calls)]
       IN /\ p.pc = "awaitValue" =>
               \A j \in DOMAIN p.calls : p.calls[j].role = "subject"
          /\ p.pc \in {"awaitPasses", "awaitResult", "awaitFallback"} =>
               /\ ~IsPromise(p.value)
               /\ Sequenced(p.calls, p.value)
          /\ p.pc = "awaitPasses" =>
               /\ last = Invoked("passes", p.i)
               /\ Cardinality(PassesIn(p.calls)) = p.i
          /\ p.pc = "awaitResult" => last = Invoked("result", p.i)
          /\ p.pc = "awaitFallback" =>
               /\ last = Invoked("fallback", 0)
               /\ ~p.stale => Cardinality(PassesIn(p.calls)) = Len(tests)
  /\ (Current(ret) /\ ret.kind = "fulfilled") =>
       /\ Sequenced(ret.calls, ResolvedSubject(ret))
       /\ WasInvoked(ret, "fallback", 0)
            => Cardinality(PassesIn(ret.calls)) = Len(tests)

\* The second predicate of a resolution is pending, alone, after the first
\* one settled as not matching
C21_Witness ==
  \E k \in DOMAIN procs :
    /\ procs[k].pc = "awaitPasses"
    /\ procs[k].i = 2
    /\ IsPromise(procs[k].pending)
    /\ ~Matches(tests[1], procs[k].value, TRUE)
    /\ procs[k].calls = <<Invoked("passes", 1), Invoked("passes", 2)>>

(***************************************************************************)
(* The chain changed while resolutions are pending: tests are registered   *)
(* and defaultTo() sets the fallback between the awaits of againstAsync(); *)
(* otherwise() is called when no promise is pending.                       *)
(***************************************************************************)
LiveInputs == {Num(1), Num(2)}

LiveTestArgs == {<<Num(1), FnConst(PromiseOf(Str("q")))>>}

LiveFallbacks == {Undefined, Str("f"), FnId}

InitLive == Constructed(whenSomething, "whenSomething", Undefined)

NextLive ==
  \/ procs = <<>> /\ withPromises
  \/ \E a \in LiveTestArgs : Len(tests) < MaxLiveTests /\ is(a[1], a[2])
  \/ \E r \in LiveFallbacks : defaultTo(r)
  \/ \E f \in LiveFallbacks : procs = <<>> /\ otherwise(f)
  \/ \E input \in LiveInputs : against(input)
  \/ \E k \in DOMAIN procs : Resume(k)

SpecLive == InitLive /\ [][NextLive]_vars

(***************************************************************************)
(* C22: the fallback is last-write-wins.  After any sequence of defaultTo  *)
(* and otherwise calls, a resolution in which no test matches returns the  *)
(* fallback given in the most recent of those calls, and setting the       *)
(* fallback again never raises an error.                                   *)
(***************************************************************************)
\* The step is a call of otherwise
OtherwiseCalled ==
  /\ ret'.call = "otherwise"
  /\ \/ ret'.kind \in {"return", "throw"}
     \/ ret'.kind = "promise" /\ Len(procs') = Len(procs) + 1

\* The step is a call of defaultTo
DefaultToCalled ==
  /\ ret'.call = "defaultTo"
  /\ ret' # ret \/ fallback' # fallback

\* A resolution of the chain as it is, in which no test matches, gave the
\* fallback of the chain, or the missing-fallback error when the fallback
\* is undefined
GaveTheFallback ==
  (Current(ret) /\ ret.subject # Undefined /\ NoTestMatches(ret)) =>
    IF fallback = Undefined
      THEN FailedWith(ret, MissingFallback)
      ELSE /\ Completed(ret)
           /\ ret.v = ResolvedFallback(fallback, ResolvedSubject(ret),
                                       OnAsync(ret))

C22_FallbackLastWriteWins ==
  [][/\ DefaultToCalled => (fallback' = ret'.arg /\ ret'.kind = "this")
     /\ OtherwiseCalled =>
          /\ fallback' = ret'.arg
          /\ (ret'.kind = "throw" /\ ret'.arg # Undefined)
               => ret'.v = MissingSubject
     /\ fallback' # fallback => (DefaultToCalled \/ OtherwiseCalled)
     /\ GaveTheFallback']_vars

\* A resolution in which no test matched returned the fallback of the chain
\* while a resolution started under an earlier, different fallback was
\* still pending
C22_Witness ==
  /\ Current(ret) /\ Completed(ret)
  /\ NoTestMatches(ret)
  /\ fallback # Undefined
  /\ ret.v = ResolvedFallback(fallback, ResolvedSubject(ret), OnAsync(ret))
  /\ \E k \in DOMAIN procs :
       /\ procs[k].stale
       /\ procs[k].pc # "rejected"
       /\ procs[k].getFallback # toCallable(fallback)
       /\ ret.v # Awaited(Call(procs[k].getFallback, ResolvedSubject(ret)),
                          TRUE)

(***************************************************************************)
(* The sequential user with the awaits of againstAsync() settling: a       *)
(* pending await does not stay pending for ever.                           *)
(***************************************************************************)
SpecFair == Spec /\ WF_vars(\E k \in DOMAIN procs : Resume(k))

(***************************************************************************)
(* C23: every resolution terminates.  Given that each user callable        *)
(* returns and each awaited promise settles, a resolution over N tests     *)
(* evaluates the predicate of each test at most once, at most N predicates *)
(* in all, and then completes with exactly one outcome: a result, the      *)
(* fallback, or an error.                                                  *)
(***************************************************************************)
\* No predicate occurs twice in the log, which holds at most one predicate
\* for each test
EvaluatedOnce(log) ==
  /\ \A j, k \in PassesIn(log) : j # k => log[j].i # log[k].i
  /\ Cardinality(PassesIn(log)) <= Len(tests)

\* The one outcome of resolution r: a result or the fallback, from the one
\* callable that produced it, or a usage error
OneOutcome(r) ==
  IF Completed(r)
    THEN Cardinality(Producers(r.calls)) = 1
    ELSE /\ r.v \in {MissingSubject, MissingFallback}
         /\ r.calls = <<>>

C23_Terminates ==
  /\ [](/\ IsResolution(ret) => (EvaluatedOnce(ret.calls) /\ OneOutcome(ret))
        /\ \A k \in DOMAIN procs : EvaluatedOnce(procs[k].calls))
  /\ (ret.kind = "promise") ~> (ret.kind \in {"fulfilled", "rejected"})

\* An asynchronous resolution over MaxTests tests has evaluated each
\* predicate once and completed with the fallback
C23_Witness ==
  /\ Current(ret) /\ ret.kind = "fulfilled"
  /\ Len(tests) = MaxTests
  /\ Cardinality(PassesIn(ret.calls)) = MaxTests
  /\ EvaluatedOnce(ret.calls)
  /\ WasInvoked(ret, "fallback", 0)

(***************************************************************************)
(* C24: on the synchronous path a test of is, isLike, isNot or isNotLike   *)
(* whose comparison callable returns a promise matches every subject: its  *)
(* predicate returns a pending promise, which is tested for truthiness.    *)
(* Its result is returned whenever no earlier test matches, whatever the   *)
(* promise would resolve to.                                               *)
(***************************************************************************)
\* The comparison callable of test i returns a promise for subject s
ComparesWithPromise(i, s) ==
  /\ Compares(i)
  /\ IsFunction(tests[i].args[1])
  /\ IsPromise(Call(tests[i].args[1], s))

C24_SyncPromiseComparisonMatches ==
  (Current(ret) /\ ~OnAsync(ret) /\ Completed(ret)) =>
    LET s == ResolvedSubject(ret)
    IN \A i \in 1..Len(tests) :
         ComparesWithPromise(i, s) =>
           /\ WasInvoked(ret, "passes", i) =>
                /\ Matched(ret, i)
                /\ ret.v = Call(tests[i].result, s)
           /\ ~WasInvoked(ret, "passes", i) =>
                \E h \in 1..(i - 1) : Matched(ret, h)

\* isNot(async () => 1, R) matched the subject 1 on the synchronous path,
\* after a first test that did not match, and R was returned
C24_Witness ==
  /\ Current(ret) /\ ret.kind = "return"
  /\ Len(tests) = 2
  /\ ResolvedSubject(ret) = Num(1)
  /\ tests[2].op = "isNot"
  /\ tests[2].args[1] = FnConst(PromiseOf(Num(1)))
  /\ ret.calls = <<Invoked("passes", 1), Invoked("passes", 2),
                   Invoked("result", 2)>>
  /\ ret.v = Call(tests[2].result, Num(1))

(***************************************************************************)
(* C25: against(x) stores x as the subject of the chain, so a later        *)
(* otherwise(f) resolves against the most recent against argument.  On a   *)
(* whenSomething() chain otherwise(f) after against(x) no longer fails and *)
(* resolves against x; on a when(a) chain otherwise(f) after against(b)    *)
(* resolves against b; after against(undefined) the chain has no subject.  *)
(***************************************************************************)
C25_OtherwiseAfterAgainst ==
  [][/\ AgainstCalled => value' = ret'.arg
     /\ value' # value => AgainstCalled
     /\ OtherwiseCalled =>
          /\ value' = value
          /\ ret'.subject = value
          /\ ret.call = "against" => ret'.subject = ret.arg
          /\ ret'.kind \in {"return", "throw"} =>
               Got(ret') = Outcome(tests, value, ret'.arg, FALSE)
          /\ ret'.kind = "promise" =>
               procs'[Len(procs')].subject = value
          /\ (value = Undefined /\ ret'.kind # "promise") =>
               FailedWith(ret', MissingSubject)]_vars

\* otherwise(f) on a deferred chain gave the result of a test for the
\* subject that an earlier against stored
C25_Witness ==
  /\ ctor.op = "whenSomething"
  /\ againstCalls # "never"
  /\ Current(ret) /\ ret.call = "otherwise" /\ Completed(ret)
  /\ ret.subject = value
  /\ value # Undefined
  /\ Len(tests) >= 1
  /\ Matched(ret, 1)

(***************************************************************************)
(* C26: an asynchronous resolution uses the fallback that was set when its *)
(* against or otherwise was called.  defaultTo(g) called while the         *)
(* resolution is pending does not change what it gives when no test        *)
(* matches; resolutions started afterwards use g.                          *)
(***************************************************************************)
\* The step starts an invocation of againstAsync that passed verify()
AsyncStarted ==
  /\ Len(procs') = Len(procs) + 1
  /\ procs'[Len(procs')].pc # "rejected"

\* The step settles invocation k with the value of its fallback
FallbackDelivered(k) ==
  /\ procs' = Without(procs, k)
  /\ ret' # ret
  /\ ret'.kind = "fulfilled"
  /\ WasInvoked(ret', "fallback", 0)

C26_FallbackCapturedAtCall ==
  [][/\ DefaultToCalled =>
          /\ Len(procs') = Len(procs)
          /\ \A k \in DOMAIN procs :
               procs'[k].getFallback = procs[k].getFallback
     /\ AsyncStarted =>
          procs'[Len(procs')].getFallback = toCallable(fallback')
     /\ \A k \in DOMAIN procs :
          FallbackDelivered(k) =>
            /\ ret'.v = Awaited(Call(procs[k].getFallback,
                                     ResolvedSubject(ret')), TRUE)
            /\ ret'.call = "otherwise" =>
                 ret'.v = Awaited(Call(toCallable(ret'.arg),
                                       ResolvedSubject(ret')), TRUE)]_vars

\* otherwise(f) was pending when defaultTo(g) was called, and then gave f's
\* value, which is not the one g gives
C26_Witness ==
  /\ IsResolution(ret) /\ OnAsync(ret) /\ ret.stale
  /\ ret.call = "otherwise"
  /\ ret.kind = "fulfilled"
  /\ WasInvoked(ret, "fallback", 0)
  /\ fallback # Undefined
  /\ fallback # ret.arg
  /\ ret.v = Awaited(Call(toCallable(ret.arg), ResolvedSubject(ret)), TRUE)
  /\ ret.v # Awaited(Call(toCallable(fallback), ResolvedSubject(ret)), TRUE)

(***************************************************************************)
(* C27: the test sequence is not snapshotted.  A test appended while an    *)
(* asynchronous resolution is pending, and before that resolution has      *)
(* matched or reached the end of the sequence, is evaluated by it and can  *)
(* supply its result in place of the fallback.                             *)
(***************************************************************************)
\* The step takes invocation k from one await to the next
Advanced(k) ==
  /\ Len(procs') = Len(procs)
  /\ procs'[k].pc # procs[k].pc \/ procs'[k].i # procs[k].i

\* Invocation p is in the loop, before a match and before the end
InLoop(p) == p.pc \in {"awaitValue", "awaitPasses"}

C27_TestsNotSnapshotted ==
  [][/\ \A k \in DOMAIN procs :
          Advanced(k) =>
            LET q == procs'[k]
            IN /\ q.pc = "awaitPasses" =>
                    /\ q.i <= Len(tests)
                    /\ q.pending = Call(tests[q.i].passes, q.value)
               /\ q.pc = "awaitResult" =>
                    q.pending = Call(tests[q.i].result, q.value)
               /\ q.pc = "awaitFallback" =>
                    /\ q.i = Len(tests) + 1
                    /\ \A j \in 1..Len(tests) : WasInvoked(q, "passes", j)
     /\ (Len(tests') > Len(tests)) =>
          /\ Len(procs') = Len(procs)
          /\ \A k \in DOMAIN procs :
               /\ procs'[k].pc = procs[k].pc
               /\ procs'[k].i = procs[k].i
               /\ InLoop(procs[k]) => procs'[k].stale]_vars

\* The last call appended a test; an invocation that was pending at that
\* call has evaluated that test since, found it matching, and awaits its
\* result
C27_Witness ==
  /\ ret.call = "is" /\ ret.kind = "this"
  /\ Len(tests) >= 1
  /\ \E k \in DOMAIN procs :
       /\ procs[k].stale
       /\ procs[k].pc = "awaitResult"
       /\ procs[k].i = Len(tests)
       /\ WasInvoked(procs[k], "passes", Len(tests))
       /\ procs[k].pending = Call(tests[Len(tests)].result, procs[k].value)
       /\ procs[k].getFallback # Undefined

=============================================================================
